---- MODULE Spec2Model ----
(***************************************************************************)
(* Model of core/server/config/google.js: getConfigOverrides and unflatten. *)
(*                                                                         *)
(* Strings are sequences of one-character strings, so that the regular     *)
(* expressions, replace(/_/g, '-') and split('-') are computed and not      *)
(* assumed.  A JavaScript object whose key order matters (process.env, a   *)
(* module's exports, the flat parameter objects) is a sequence of          *)
(* <<key, value>> pairs with distinct keys, in insertion order.  A nested  *)
(* value is a node: Val(s) for a scalar, Obj(m) for a plain object with m  *)
(* a function from keys to nodes, Ref(o) for a reference to an object that *)
(* lives in the module loader's cache.                                     *)
(***************************************************************************)
EXTENDS Naturals, Sequences, FiniteSets, TLC

VARIABLES env,      \* process.env: sequence of <<name, value>>
          argv,     \* minimist(process.argv.slice(2)): [pos, flags]
          disk,     \* the file system: path -> file content or Missing
          cache,    \* require's module cache: path -> exports or NotLoaded
          store,    \* the nested objects of the cached exports, by origin
          result,   \* what the call in progress handed to its caller
          ncalls,   \* number of calls of getConfigOverrides so far
          fin,      \* input of the function under test (function specifications)
          fout      \* its output

vars == <<env, argv, disk, cache, store, result, ncalls, fin, fout>>

-----------------------------------------------------------------------------
(* Bounds *)

MaxEnv == 1       \* environment variables at startup
MaxArgs == 2      \* positional arguments
MaxFlags == 1     \* flags at startup
MaxCalls == 2     \* calls of getConfigOverrides in one process
MaxScan == 3      \* environment variables scanned by envParams alone
MaxSegs == 3      \* segments of a key given to unflatten alone
MaxParams == 3    \* expanded parameters merged by _.merge alone

-----------------------------------------------------------------------------
(* Nodes *)

Val(v) == [t |-> "val", v |-> v]
Obj(m) == [t |-> "obj", m |-> m]
Ref(o) == [t |-> "ref", o |-> o]
Undefined == [t |-> "undef"]
Missing == [t |-> "missing"]
NotLoaded == [t |-> "notloaded"]
EmptyObject == Obj(<<>>)

-----------------------------------------------------------------------------
(* Flat objects in insertion order *)

Keys(o) == {o[i][1] : i \in 1..Len(o)}

Get(o, k) == IF k \in Keys(o) THEN (o[CHOOSE i \in 1..Len(o) : o[i][1] = k])[2]
             ELSE Undefined

\* object[key] = value: an existing key keeps its position.
Put(o, k, v) == IF k \in Keys(o)
                THEN [i \in 1..Len(o) |-> IF o[i][1] = k THEN <<k, v>> ELSE o[i]]
                ELSE Append(o, <<k, v>>)

\* _.assign(object, source): the source's own properties, in the source's order.
RECURSIVE Assign(_, _)
Assign(object, source) ==
    IF source = <<>> THEN object
    ELSE Assign(Put(object, Head(source)[1], Head(source)[2]), Tail(source))

\* _.object(pairs): later pairs overwrite earlier ones.
ZipObject(pairs) == Assign(<<>>, pairs)

-----------------------------------------------------------------------------
(* Strings *)

NpmPrefix == <<"n","p","m","_","p","a","c","k","a","g","e","_",
               "c","o","n","f","i","g","_">>
GhostPrefix == <<"g","h","o","s","t","_">>

ToLower(c) == CASE c = "G" -> "g" [] c = "H" -> "h" [] c = "O" -> "o"
                [] c = "S" -> "s" [] c = "T" -> "t" [] c = "A" -> "a"
                [] c = "B" -> "b" [] OTHER -> c

StartsWith(s, p) == Len(s) >= Len(p) /\ SubSeq(s, 1, Len(p)) = p

\* /^npm_package_config_(.*)/.test(k)
TestNpm(k) == StartsWith(k, NpmPrefix)
\* /^ghost_(.*)/i.test(k)
TestGhost(k) == StartsWith([i \in 1..Len(k) |-> ToLower(k[i])], GhostPrefix)

\* p.exec(k)[1]: what follows the prefix.
Capture(k, p) == SubSeq(k, Len(p) + 1, Len(k))

\* s.replace(/_/g, '-')
ReplaceUnderscores(s) == [i \in 1..Len(s) |-> IF s[i] = "_" THEN "-" ELSE s[i]]

\* k.split('-')
SplitNothing(s) == <<s>>
RECURSIVE Split(_)
Split(s) ==
    IF \A i \in 1..Len(s) : s[i] # "-" THEN <<s>>
    ELSE LET i == CHOOSE i \in 1..Len(s) : s[i] = "-" /\ \A j \in 1..(i - 1) : s[j] # "-"
         IN  <<SubSeq(s, 1, i - 1)>> \o Split(SubSeq(s, i + 1, Len(s)))

-----------------------------------------------------------------------------
(* unflatten and _.merge *)

unflattenNoRecursion(keys, value) == Obj(keys[1] :> value)
RECURSIVE unflatten(_, _)
unflatten(keys, value) ==
    Obj(keys[1] :> (IF Len(keys) = 1 THEN value ELSE unflatten(Tail(keys), value)))

\* _.merge(object, source) on plain objects and scalars: a source object is
\* merged into the destination's plain object (or into a new {} when the
\* destination holds none); a source scalar replaces what is there.
MergeShallow(object, source) ==
    Obj([k \in DOMAIN object.m \cup DOMAIN source.m |->
            IF k \in DOMAIN source.m THEN source.m[k] ELSE object.m[k]])
RECURSIVE Merge(_, _)
Merge(object, source) ==
    Obj([k \in DOMAIN object.m \cup DOMAIN source.m |->
            IF k \notin DOMAIN source.m THEN object.m[k]
            ELSE IF source.m[k].t = "obj"
                 THEN Merge(IF k \in DOMAIN object.m /\ object.m[k].t = "obj"
                            THEN object.m[k] ELSE EmptyObject,
                            source.m[k])
                 ELSE source.m[k]])

\* The node at a key path of a tree; Undefined where the path leaves the tree.
RECURSIVE ReadPath(_, _)
ReadPath(node, path) ==
    IF path = <<>> THEN node
    ELSE IF node.t = "obj" /\ Head(path) \in DOMAIN node.m
         THEN ReadPath(node.m[Head(path)], Tail(path))
         ELSE Undefined

-----------------------------------------------------------------------------
(* Environment extraction (step 1) *)

Patterns == <<"npm", "ghost">>

Test(p, k) == IF p = "npm" THEN TestNpm(k) ELSE TestGhost(k)
Prefix(p) == IF p = "npm" THEN NpmPrefix ELSE GhostPrefix

\* _(process.env).pick(...).map(...).object().value() for one pattern
EnvObject(p, e) ==
    LET picked == SelectSeq(e, LAMBDA kv : Test(p, kv[1]))
    IN  ZipObject([i \in 1..Len(picked) |->
                     <<ReplaceUnderscores(Capture(picked[i][1], Prefix(p))),
                       Val(picked[i][2])>>])

\* _.assign.apply(undefined, [npm object, ghost object])
envParamsNpmLast(e) == Assign(EnvObject(Patterns[2], e), EnvObject(Patterns[1], e))
envParams(e) == Assign(EnvObject(Patterns[1], e), EnvObject(Patterns[2], e))

-----------------------------------------------------------------------------
(* Referenced files (step 2) *)

Cwd == <<"/", "cwd">>
IsAbsolute(arg) == arg # <<>> /\ Head(arg) = "/"
abspath(arg) == IF IsAbsolute(arg) THEN arg ELSE Cwd \o arg

File(content) == [t |-> "file", content |-> content]
Module(exports) == [t |-> "module", exports |-> exports]

\* The exports of a freshly loaded file: its nested objects are new objects
\* of the heap, named by the path and the top-level key they were loaded at.
Exports(p, content) ==
    [i \in 1..Len(content) |->
        <<content[i][1],
          IF content[i][2].t = "obj" THEN Ref(<<p, content[i][1]>>) ELSE content[i][2]>>]

StoreLoaded(s, p, content) ==
    [o \in DOMAIN s |->
        IF o[1] = p /\ o[2] \in Keys(content) /\ Get(content, o[2]).t = "obj"
        THEN Get(content, o[2]) ELSE s[o]]

\* _.map(args._, function (arg) { return require(abspath); }): a module the
\* loader has cached is returned as it is; otherwise the file is read, and a
\* missing file throws.  Files required before the throw stay loaded.
RECURSIVE RequireAllLenient(_, _, _, _)
RequireAllLenient(args, d, c, s) ==
    IF args = <<>> THEN [ok |-> TRUE, cache |-> c, store |-> s]
    ELSE LET p == abspath(Head(args))
             content == IF d[p].t = "missing" THEN <<>> ELSE d[p].content
         IN  IF c[p].t = "module" THEN RequireAllLenient(Tail(args), d, c, s)
             ELSE RequireAllLenient(Tail(args), d,
                                    [c EXCEPT ![p] = Module(Exports(p, content))],
                                    StoreLoaded(s, p, content))
RECURSIVE RequireAll(_, _, _, _)
RequireAll(args, d, c, s) ==
    IF args = <<>> THEN [ok |-> TRUE, cache |-> c, store |-> s]
    ELSE LET p == abspath(Head(args))
         IN  IF c[p].t = "module" THEN RequireAll(Tail(args), d, c, s)
             ELSE IF d[p].t = "missing" THEN [ok |-> FALSE, cache |-> c, store |-> s]
             ELSE RequireAll(Tail(args), d,
                             [c EXCEPT ![p] = Module(Exports(p, d[p].content))],
                             StoreLoaded(s, p, d[p].content))

\* _.assign(first, second, ...): the sources are assigned onto the first
\* module's exports, one after the other.
RECURSIVE AssignFiles(_, _, _, _)
AssignFiles(top, paths, first, c) ==
    IF paths = <<>> THEN top
    ELSE AssignFiles(Assign(top, IF Head(paths) = first THEN top
                                 ELSE c[Head(paths)].exports),
                     Tail(paths), first, c)

-----------------------------------------------------------------------------
(* Combination and expansion (steps 3 to 5) *)

Deref(entry, s) == IF entry.t = "ref" THEN s[entry.o] ELSE entry

\* _.map(params, function (v, k) { return unflatten(k.split('-'), v); })
Expanded(flat, s) ==
    [i \in 1..Len(flat) |-> unflatten(Split(flat[i][1]), Deref(flat[i][2], s))]

\* One step of _.reduce(..., _.merge).  The accumulator is the first expanded
\* object, whose leaf may be an object of the heap (att): _.merge then writes
\* into that object for as long as it stays at its path of the accumulator.
ReduceStep(st, elem, path0) ==
    LET acc == Merge(st.acc, elem)
        node == ReadPath(acc, path0)
        att == st.att /\ node.t = "obj"
    IN  [acc |-> acc, att |-> att, obj |-> IF att THEN node ELSE st.obj]

RECURSIVE ReduceFrom(_, _, _)
ReduceFrom(st, elems, path0) ==
    IF elems = <<>> THEN st
    ELSE ReduceFrom(ReduceStep(st, Head(elems), path0), Tail(elems), path0)

Returned(tree) == [st |-> "returned", tree |-> tree]
Threw == [st |-> "threw", tree |-> Undefined]
NoResult == [st |-> "none", tree |-> Undefined]

\* jsonjsParams, given the modules the loader holds once every positional
\* argument is required: undefined (no properties) without positional argument.
jsonjsParams(a, c) ==
    LET paths == [i \in 1..Len(a.pos) |-> abspath(a.pos[i])]
    IN  IF paths = <<>> THEN <<>>
        ELSE AssignFiles(c[paths[1]].exports, Tail(paths), paths[1], c)

\* _.omit(args, '_')
optionParams(a) == [i \in 1..Len(a.flags) |-> <<a.flags[i][1], Val(a.flags[i][2])>>]

\* params = _.assign({}, envParams, jsonjsParams, optionParams), given the
\* modules loaded.
params(e, a, c) ==
    Assign(Assign(Assign(<<>>, envParams(e)), jsonjsParams(a, c)), optionParams(a))

\* The whole of getConfigOverrides on environment e, arguments a, disk d and
\* the module cache (c, s): what it returns and the cache it leaves.
Run(e, a, d, c, s) ==
    LET loaded == RequireAll(a.pos, d, c, s)
    IN  IF ~loaded.ok
        THEN [result |-> Threw, cache |-> loaded.cache, store |-> loaded.store]
        ELSE
        LET c2 == IF a.pos = <<>> THEN loaded.cache
                  ELSE [loaded.cache EXCEPT ![abspath(a.pos[1])] =
                           Module(jsonjsParams(a, loaded.cache))]
            flat == params(e, a, loaded.cache)
        IN  IF flat = <<>>
            THEN [result |-> Returned(Undefined), cache |-> c2, store |-> loaded.store]
            ELSE
            LET elems == Expanded(flat, loaded.store)
                path0 == Split(flat[1][1])
                isRef == flat[1][2].t = "ref"
                st0 == [acc |-> elems[1], att |-> isRef,
                        obj |-> Deref(flat[1][2], loaded.store)]
                st == ReduceFrom(st0, Tail(elems), path0)
            IN  [result |-> Returned(st.acc),
                 cache |-> c2,
                 store |-> IF isRef
                           THEN [loaded.store EXCEPT ![flat[1][2].o] = st.obj]
                           ELSE loaded.store]

-----------------------------------------------------------------------------
(* Inputs *)

SeqsUpTo(S, n) == UNION {[1..k -> S] : k \in 0..n}
DistinctKeys(o) == \A i, j \in 1..Len(o) : o[i][1] = o[j][1] => i = j

KeyA == <<"a">>
KeyAB == <<"a", "-", "b">>
KeyAC == <<"a", "-", "c">>

\* npm_package_config_a_b, GHOST_a_b, Ghost_a-b, ghost_ and HOME, each with
\* a value of its own.
NpmAB == <<NpmPrefix \o <<"a", "_", "b">>, "N">>
EnvUniverse ==
    { NpmAB,
      <<<<"G", "H", "O", "S", "T", "_", "a", "_", "b">>, "G">>,
      <<<<"G", "h", "o", "s", "t", "_", "a", "-", "b">>, "H">>,
      <<<<"g", "h", "o", "s", "t", "_">>, "Z">>,
      <<<<"H", "O", "M", "E">>, "O">> }

\* A relative and an absolute pathname.
ArgUniverse == { <<"f1">>, <<"/", "cwd", "f2">> }
Paths == {abspath(arg) : arg \in ArgUniverse}

\* --a-b=X, --a=Y, --a-c=W
FlagAB == <<KeyAB, "X">>
FlagAC == <<KeyAC, "W">>
FlagUniverse == { FlagAB, <<KeyA, "Y">>, FlagAC }

\* {"a": {"b": "F"}}, {"a-b": "P"}, {"a": "Q"}
FileNested == File(<< <<KeyA, Obj(<<"b">> :> Val("F"))>> >>)
FileFlat == File(<< <<KeyAB, Val("P")>> >>)
FileScalar == File(<< <<KeyA, Val("Q")>> >>)
FileUniverse == { FileNested, FileFlat, FileScalar }
FileKeys == UNION {Keys(f.content) : f \in FileUniverse}
Origins == Paths \X FileKeys

Envs(n) == {e \in SeqsUpTo(EnvUniverse, n) : DistinctKeys(e)}
Positionals == SeqsUpTo(ArgUniverse, MaxArgs)
Flags == {f \in SeqsUpTo(FlagUniverse, MaxFlags) : DistinctKeys(f)}
Disks == [Paths -> FileUniverse \cup {Missing}]

\* What a process that calls getConfigOverrides several times is run with:
\* at most one variable and one flag, so that the calls and the files vary.
ProcessEnvs == { <<>>, <<NpmAB>> }
ProcessFlags == { <<>>, <<FlagAB>>, <<FlagAC>> }

EmptyCache == [p \in Paths |-> NotLoaded]
EmptyStore == [o \in Origins |-> Undefined]

-----------------------------------------------------------------------------
(* The process: calls of getConfigOverrides, and what changes between them *)

Idle == <<>>

Init ==
    /\ env \in ProcessEnvs
    /\ argv \in [pos : Positionals, flags : ProcessFlags]
    /\ disk \in Disks
    /\ cache = EmptyCache
    /\ store = EmptyStore
    /\ result = NoResult
    /\ ncalls = 0
    /\ fin = Idle
    /\ fout = Idle

getConfigOverrides ==
    /\ ncalls < MaxCalls
    /\ LET r == Run(env, argv, disk, cache, store)
       IN  /\ result' = r.result
           /\ cache' = r.cache
           /\ store' = r.store
    /\ ncalls' = ncalls + 1
    /\ UNCHANGED <<env, argv, disk, fin, fout>>

\* Between two calls the caller has taken the result, and the environment,
\* the arguments or a file may change.
Between == ncalls >= 1 /\ ncalls < MaxCalls

SetEnv ==
    /\ Between
    /\ \E e \in ProcessEnvs : e # env /\ env' = e
    /\ result' = NoResult
    /\ UNCHANGED <<argv, disk, cache, store, ncalls, fin, fout>>

SetPositionals ==
    /\ Between
    /\ \E p \in Positionals : p # argv.pos /\ argv' = [argv EXCEPT !.pos = p]
    /\ result' = NoResult
    /\ UNCHANGED <<env, disk, cache, store, ncalls, fin, fout>>

SetFlags ==
    /\ Between
    /\ \E f \in ProcessFlags : f # argv.flags /\ argv' = [argv EXCEPT !.flags = f]
    /\ result' = NoResult
    /\ UNCHANGED <<env, disk, cache, store, ncalls, fin, fout>>

WriteFile ==
    /\ Between
    /\ \E p \in Paths, f \in FileUniverse \cup {Missing} :
          f # disk[p] /\ disk' = [disk EXCEPT ![p] = f]
    /\ result' = NoResult
    /\ UNCHANGED <<env, argv, cache, store, ncalls, fin, fout>>

Next == getConfigOverrides \/ SetEnv \/ SetPositionals \/ SetFlags \/ WriteFile

Spec == Init /\ [][Next]_vars

-----------------------------------------------------------------------------
(* Startup: the one call a freshly started process makes *)

InitStartup ==
    /\ env \in Envs(MaxEnv)
    /\ argv \in [pos : Positionals, flags : Flags]
    /\ disk \in Disks
    /\ cache = EmptyCache
    /\ store = EmptyStore
    /\ result = NoResult
    /\ ncalls = 0
    /\ fin = Idle
    /\ fout = Idle

Startup == ncalls = 0 /\ getConfigOverrides

SpecStartup == InitStartup /\ [][Startup]_vars

-----------------------------------------------------------------------------
(* Function specifications: one function applied to inputs drawn at Init *)

NotYet == [done |-> FALSE]
Done(v) == [done |-> TRUE, v |-> v]

InitFunction(inputs) ==
    /\ fin \in inputs
    /\ fout = NotYet
    /\ env = <<>>
    /\ argv = [pos |-> <<>>, flags |-> <<>>]
    /\ disk = [p \in Paths |-> Missing]
    /\ cache = EmptyCache
    /\ store = EmptyStore
    /\ result = NoResult
    /\ ncalls = 0

Frame == UNCHANGED <<env, argv, disk, cache, store, result, ncalls, fin>>

\* envParams of an environment (lines 60 to 71)
ScanEnvironment == fout = NotYet /\ fout' = Done(envParams(fin)) /\ Frame

SpecEnv == InitFunction(Envs(MaxScan)) /\ [][ScanEnvironment]_vars

\* unflatten(key.split('-'), value) of the key that joins segments with hyphens
RECURSIVE Join(_)
Join(segs) == IF Len(segs) = 1 THEN segs[1]
              ELSE segs[1] \o <<"-">> \o Join(Tail(segs))

SegmentUniverse == { <<"a">>, <<"b">>, <<"a", "b">>, <<>> }
ValueUniverse == { Val("V"), Obj(<<"b">> :> Val("F")) }
UnflattenInputs ==
    [segs : SeqsUpTo(SegmentUniverse, MaxSegs) \ {<<>>}, value : ValueUniverse]

ExpandKey == fout = NotYet
             /\ fout' = Done(unflatten(Split(Join(fin.segs)), fin.value))
             /\ Frame

SpecUnflatten == InitFunction(UnflattenInputs) /\ [][ExpandKey]_vars

\* _.merge over the expanded parameters, in any order and grouping
KeyC == <<"c">>
KeyABC == <<"a", "-", "b", "-", "c">>
ParamUniverse == { <<KeyA, Val("1")>>, <<KeyAB, Val("2")>>, <<KeyAC, Val("3")>>,
                   <<KeyC, Val("4")>>, <<KeyABC, Val("5")>> }
MergeInputs == {o \in SeqsUpTo(ParamUniverse, MaxParams) : o # <<>> /\ DistinctKeys(o)}

\* The tree getConfigOverrides returns for expanded parameters no leaf of
\* which is an object of the heap.
Reduced(elems) ==
    ReduceFrom([acc |-> elems[1], att |-> FALSE, obj |-> Undefined],
               Tail(elems), <<>>).acc

RemoveAt(q, j) == [i \in 1..(Len(q) - 1) |-> IF i < j THEN q[i] ELSE q[i + 1]]

ExpandAll == fout = NotYet /\ fout' = Done(Expanded(fin, EmptyStore)) /\ Frame

MergeTwo ==
    /\ fout.done
    /\ \E i, j \in 1..Len(fout.v) :
          /\ i # j
          /\ fout' = Done(RemoveAt([fout.v EXCEPT ![i] = Merge(fout.v[i], fout.v[j])], j))
    /\ Frame

NextMerge == ExpandAll \/ MergeTwo

SpecMerge == InitFunction(MergeInputs) /\ [][NextMerge]_vars

-----------------------------------------------------------------------------
(* Vocabulary of the claims *)

IsPrefix(p, q) == Len(p) <= Len(q) /\ SubSeq(q, 1, Len(p)) = p
Collide(p, q) == IsPrefix(p, q) \/ IsPrefix(q, p)

\* The <<path, scalar>> leaves of a node that sits at a path.
RECURSIVE Leaves(_, _)
Leaves(node, at) ==
    IF node.t = "obj"
    THEN UNION {Leaves(node.m[k], Append(at, k)) : k \in DOMAIN node.m}
    ELSE {<<at, node>>}

\* The leaves a flat object of key-value pairs supplies, a key k at split(k, '-').
FlatLeaves(o) == UNION {Leaves(o[i][2], Split(o[i][1])) : i \in 1..Len(o)}
ValuesAt(leaves, p) == {l[2] : l \in {x \in leaves : x[1] = p}}

PosPaths == {abspath(argv.pos[i]) : i \in 1..Len(argv.pos)}

\* What each source supplies at startup, the files as they are on disk.
EnvLeaves == FlatLeaves(envParams(env))
FileLeaves == UNION {FlatLeaves(disk[p].content) : p \in PosPaths}
FlagLeaves == FlatLeaves(optionParams(argv))
SuppliedPaths == {l[1] : l \in EnvLeaves \cup FileLeaves \cup FlagLeaves}

\* The exports of a cached module with its nested objects in place.
View(c, s, p) ==
    [i \in 1..Len(c[p].exports) |->
        <<c[p].exports[i][1], Deref(c[p].exports[i][2], s)>>]

\* params of the call that has just returned.
ParamsOfCall == params(env, argv, cache)
Priority(k) == IF k \in Keys(optionParams(argv)) THEN 3
               ELSE IF k \in Keys(jsonjsParams(argv, cache)) THEN 2
               ELSE 1

NoEnvMatch == \A i \in 1..Len(env) : ~TestNpm(env[i][1]) /\ ~TestGhost(env[i][1])

-----------------------------------------------------------------------------
(* Claims *)

\* C1: at every key path that some source supplies (and that is neither a
\* proper prefix nor an extension of another supplied path), the returned
\* tree holds the value of the highest-priority source supplying it:
\* flags over referenced files over environment.
C1_SourcePrecedence ==
    result.st = "returned" =>
        \A p \in SuppliedPaths :
            (\A q \in SuppliedPaths : Collide(p, q) => q = p) =>
                LET winners ==
                        IF ValuesAt(FlagLeaves, p) # {} THEN ValuesAt(FlagLeaves, p)
                        ELSE IF ValuesAt(FileLeaves, p) # {} THEN ValuesAt(FileLeaves, p)
                        ELSE ValuesAt(EnvLeaves, p)
                IN  ReadPath(result.tree, p) \in winners

\* C2: with no matching environment variable, no flag and no positional
\* argument, the call returns a mapping with no entries.
C2_NoSourcesEmptyTree ==
    (result.st # "none" /\ NoEnvMatch /\ argv.flags = <<>> /\ argv.pos = <<>>)
        => result = Returned(EmptyObject)

\* C3: a call fails and returns no tree whenever a positional argument
\* resolves to a path that cannot be loaded (no file exists there, and the
\* module loader holds no module of that path), whatever its position and
\* whatever the environment, the flags and the other files are.
C3_UnloadableFileFails ==
    [][(ncalls' = ncalls + 1
        /\ \E p \in PosPaths : disk[p].t = "missing" /\ cache[p].t = "notloaded")
       => result' = Threw]_vars

\* C3 witness: the second of two positional arguments is missing, the first
\* was loaded, a variable and a flag are present, and the call threw.
C3_Witness ==
    /\ result = Threw
    /\ Len(argv.pos) = 2
    /\ cache[abspath(argv.pos[1])].t = "module"
    /\ disk[abspath(argv.pos[2])].t = "missing"
    /\ cache[abspath(argv.pos[2])].t = "notloaded"
    /\ env # <<>>
    /\ argv.flags # <<>>

\* C4: what a call returns is what a call with no history returns on the
\* environment, arguments and file contents of the time of the call.
C4_ResultIndependentOfHistory ==
    result.st # "none" =>
        result = Run(env, argv, disk, EmptyCache, EmptyStore).result

\* C5: after the first call of a process, every object loaded from a
\* referenced file has the contents the file gave it.
C5_LoadedObjectsUnchanged ==
    result.st = "returned" => \A p \in PosPaths : View(cache, store, p) = disk[p].content

\* C6: a key derived both from an npm_package_config_ variable and from a
\* ghost_ variable has a ghost_ variable's value in envParams, in whatever
\* order the environment lists them.
C6_GhostOverNpm ==
    fout.done =>
        \A i, j \in 1..Len(fin) :
            LET k == ReplaceUnderscores(Capture(fin[i][1], NpmPrefix))
            IN  (/\ TestNpm(fin[i][1])
                 /\ TestGhost(fin[j][1])
                 /\ ReplaceUnderscores(Capture(fin[j][1], GhostPrefix)) = k)
                => \E m \in 1..Len(fin) :
                      /\ TestGhost(fin[m][1])
                      /\ ReplaceUnderscores(Capture(fin[m][1], GhostPrefix)) = k
                      /\ Get(fout.v, k) = Val(fin[m][2])

\* C6 witness: the ghost_ variable is listed first, the npm_package_config_
\* variable of the same key after it, and envParams holds the former's value.
C6_Witness ==
    /\ fout.done
    /\ Len(fin) >= 2
    /\ TestGhost(fin[1][1])
    /\ TestNpm(fin[2][1])
    /\ ReplaceUnderscores(Capture(fin[1][1], GhostPrefix)) = KeyAB
    /\ ReplaceUnderscores(Capture(fin[2][1], NpmPrefix)) = KeyAB
    /\ Get(fout.v, KeyAB) = Val(fin[1][2])

\* C7: the object built for the key k1-...-kn and a value holds exactly that
\* value at the path [k1, ..., kn], and one entry at each level above it.
RECURSIVE OnlyPath(_, _)
OnlyPath(node, path) ==
    path = <<>> \/ (/\ node.t = "obj"
                    /\ DOMAIN node.m = {Head(path)}
                    /\ OnlyPath(node.m[Head(path)], Tail(path)))

C7_ExpansionRoundTrip ==
    fout.done => ReadPath(fout.v, fin.segs) = fin.value /\ OnlyPath(fout.v, fin.segs)

\* C7 witness: a key of three segments has been expanded.
C7_Witness ==
    /\ fout.done
    /\ Len(fin.segs) = 3
    /\ fout.v = Obj(fin.segs[1] :> Obj(fin.segs[2] :> Obj(fin.segs[3] :> fin.value)))

\* C8: when no two key paths collide, merging the expanded parameters in any
\* order and grouping ends in the tree that the reduction of the code builds,
\* and every parameter's value is read at its path.
NonColliding(o) ==
    \A i, j \in 1..Len(o) : i # j => ~Collide(Split(o[i][1]), Split(o[j][1]))

C8_MergeOrderIndependent ==
    (fout.done /\ Len(fout.v) = 1 /\ NonColliding(fin)) =>
        /\ fout.v[1] = Reduced(Expanded(fin, EmptyStore))
        /\ \A i \in 1..Len(fin) : ReadPath(fout.v[1], Split(fin[i][1])) = fin[i][2]

\* C8 witness: three parameters with a-b and a-c among them have been merged
\* into one tree, where b and c are siblings under a.
C8_Witness ==
    /\ fout.done
    /\ Len(fout.v) = 1
    /\ Len(fin) = 3
    /\ NonColliding(fin)
    /\ {KeyAB, KeyAC} \subseteq Keys(fin)
    /\ {<<"b">>, <<"c">>} \subseteq DOMAIN ReadPath(fout.v[1], <<KeyA>>).m

\* C9 (as claimed): every key of params is a non-empty string and has a
\* segment that is not the empty string.
C9_NoEmptyKeyPath ==
    result.st = "returned" =>
        \A k \in Keys(ParamsOfCall) :
            k # <<>> /\ \E i \in 1..Len(Split(k)) : Split(k)[i] # <<>>

\* C9 (amended): every key of params splits into at least one segment, and
\* no segment contains a hyphen; a segment may be the empty string.
C9_KeyPathHasSegment ==
    result.st = "returned" =>
        \A k \in Keys(ParamsOfCall) :
            /\ Len(Split(k)) >= 1
            /\ \A i \in 1..Len(Split(k)) :
                  \A n \in 1..Len(Split(k)[i]) : Split(k)[i][n] # "-"

\* C9 witness: the variable ghost_ gave params the empty key, next to a key
\* of two segments, and the tree holds its value under the empty segment.
C9_Witness ==
    /\ result.st = "returned"
    /\ <<>> \in Keys(ParamsOfCall)
    /\ \E k \in Keys(ParamsOfCall) : Len(Split(k)) = 2
    /\ ReadPath(result.tree, << <<>> >>) = Val("Z")

\* C10: of two parameters from different sources, the path of one a proper
\* prefix of the other's, the write of the higher-priority one remains in
\* the tree (no parameter of still higher priority colliding with it).
C10_PrefixCollisionBySource ==
    result.st = "returned" =>
        \A k1, k2 \in Keys(ParamsOfCall) :
            (/\ k1 # k2
             /\ IsPrefix(Split(k1), Split(k2))
             /\ Priority(k1) # Priority(k2))
            => LET h == IF Priority(k1) > Priority(k2) THEN k1 ELSE k2
               IN  (/\ Get(ParamsOfCall, h).t = "val"
                    /\ \A k3 \in Keys(ParamsOfCall) :
                          Priority(k3) > Priority(h) => ~Collide(Split(k3), Split(h)))
                   => ReadPath(result.tree, Split(h)) = Get(ParamsOfCall, h)

====
